---- MODULE Spec2Model ----
(***************************************************************************)
(* The Supertask scheduler wrapper (main.py, models.py) as a state machine.*)
(*                                                                         *)
(* run_supertask performs, in order: Supertask.__init__/configure,         *)
(* seed_jobs, start_scheduler, start_filesystem_observer and               *)
(* start_http_service.  The scheduler object behind them is an APScheduler *)
(* 3.x BackgroundScheduler; the behaviour of the calls the wrapper makes   *)
(* on it (add_job, start, the job-processing pass, the executor's instance *)
(* accounting) is modelled at the call sites.                              *)
(*                                                                         *)
(* Time is counted in whole minutes from the instant the process boots.    *)
(* The steps of a run fall inside the minute `now`, after its mark, and the *)
(* jobs' fire times are the marks; the calendar runs further down take an   *)
(* instant as the mark itself.                                              *)
(***************************************************************************)
EXTENDS Integers, Sequences, FiniteSets, TLC

\* ------------------------------------------------------------------ bounds
MaxTime == 5     \* the clock runs over the minutes 0..MaxTime
MaxDefs == 2     \* longest definition list (cronjobs.json)
MaxEdits == 1    \* edits of the definition list during one run
MaxDays == 9     \* the calendar runs over the days 0..MaxDays

\* ------------------------------------------------------- program constants
DefaultMaxInstances == 1   \* job_defaults['max_instances']
SeedMaxInstances == 4      \* max_instances=4 passed by seed_jobs

Beyond == MaxTime + 1      \* a fire time after the clock's horizon

JobIds == {1, 2}

\* crontab texts the definition list may carry
Crontabs == {"* * * * *", "*/5 * *", "61 * * * *"}

\* job store addresses given to run_supertask
Addresses ==
    {"memory://", "postgresql://postgres@localhost", "crate://localhost",
     "sqlite:///jobs.db"}

VARIABLES
    job_store_address,  \* Supertask.job_store_address
    pre_delete_jobs,    \* Supertask.pre_delete_jobs
    cronjobs,           \* the definition list get_db() returns (cronjobs.json)
    pc,                 \* position of run_supertask
    error,              \* the exception that aborted startup, "none" if none
    backend,            \* the job store class configure() instantiated
    reachable,          \* whether the durable backend answers
    jobstore,           \* the jobs held by the store behind the address
    boot_store,         \* the jobs the store held when the process booted
    pending_jobs,       \* scheduler._pending_jobs
    state,              \* scheduler.state
    instances,          \* executor._instances: in-flight instances per job id
    skipped,            \* job ids with a max-instances-reached event
    now,                \* the clock
    observer_started,   \* the watchdog Observer thread runs
    http_started,       \* the uvicorn thread runs
    events,             \* change events the observer has queued
    edits               \* edits of the definition list so far

vars ==
    <<job_store_address, pre_delete_jobs, cronjobs, pc, error, backend,
      reachable, jobstore, boot_store, pending_jobs, state, instances,
      skipped, now, observer_started, http_started, events, edits>>

\* ---------------------------------------------------------------- strings
StartsWith(s, p) == Len(s) >= Len(p) /\ SubSeq(s, 1, Len(p)) = p

CharAt(s, i) == SubSeq(s, i, i)

\* str.split(sep) for a one-character separator that does not collapse runs
RECURSIVE SplitOn(_, _, _, _)
SplitOn(s, sep, i, cur) ==
    IF i > Len(s) THEN <<cur>>
    ELSE IF CharAt(s, i) = sep
         THEN <<cur>> \o SplitOn(s, sep, i + 1, "")
         ELSE SplitOn(s, sep, i + 1, cur \o CharAt(s, i))

\* str.split(): fields separated by runs of blanks, no empty field
RECURSIVE SplitBlank(_, _, _)
SplitBlank(s, i, cur) ==
    IF i > Len(s) THEN (IF cur = "" THEN <<>> ELSE <<cur>>)
    ELSE IF CharAt(s, i) = " "
         THEN (IF cur = "" THEN <<>> ELSE <<cur>>) \o SplitBlank(s, i + 1, "")
         ELSE SplitBlank(s, i + 1, cur \o CharAt(s, i))

split(s) == SplitBlank(s, 1, "")

Digits == "0123456789"

IsDigit(c) == \E k \in 1..10 : CharAt(Digits, k) = c

DigitValue(c) == (CHOOSE k \in 1..10 : CharAt(Digits, k) = c) - 1

IsNumber(s) == Len(s) > 0 /\ \A i \in 1..Len(s) : IsDigit(CharAt(s, i))

\* int(s) for a string of digits
RECURSIVE ToInt(_)
ToInt(s) ==
    IF Len(s) = 0 THEN 0
    ELSE 10 * ToInt(SubSeq(s, 1, Len(s) - 1)) + DigitValue(CharAt(s, Len(s)))

\* ------------------------------------------------------------ cron fields
(* The value ranges of the five CronTrigger fields seed_jobs fills, in the  *)
(* order of the unpacking: minute, hour, day, month, day_of_week.           *)
FieldMin == <<0, 0, 1, 1, 0>>
FieldMax == <<59, 23, 31, 12, 6>>

\* the part of e before the first "/" and the part after it ("" if none)
StepSplit(e) == SplitOn(e, "/", 1, "")
RangeSplit(e) == SplitOn(e, "-", 1, "")

(* One expression of a field: "*", "*" with a step, a number, a range a-b,  *)
(* or a number or range with a step.                                        *)
ExprValid(e, lo, hi) ==
    LET parts == StepSplit(e)
        base == parts[1]
        rng == RangeSplit(base)
        stepOk == \/ Len(parts) = 1
                  \/ Len(parts) = 2 /\ IsNumber(parts[2]) /\ ToInt(parts[2]) > 0
        baseOk ==
            \/ base = "*"
            \/ Len(rng) = 1 /\ IsNumber(rng[1])
                 /\ ToInt(rng[1]) >= lo /\ ToInt(rng[1]) <= hi
            \/ Len(rng) = 2 /\ IsNumber(rng[1]) /\ IsNumber(rng[2])
                 /\ ToInt(rng[1]) >= lo /\ ToInt(rng[2]) <= hi
                 /\ ToInt(rng[1]) <= ToInt(rng[2])
    IN  Len(parts) <= 2 /\ stepOk /\ baseOk

\* whether value v satisfies expression e of a field with range lo..hi
ExprMatches(e, v, lo, hi) ==
    LET parts == StepSplit(e)
        base == parts[1]
        rng == RangeSplit(base)
        step == IF Len(parts) = 2 THEN ToInt(parts[2]) ELSE 1
        first == IF base = "*" THEN lo ELSE ToInt(rng[1])
        last == IF base = "*" THEN hi
                ELSE IF Len(rng) = 2 THEN ToInt(rng[2])
                ELSE IF Len(parts) = 2 THEN hi
                ELSE ToInt(rng[1])
    IN  v >= first /\ v <= last /\ (v - first) % step = 0

\* a field is a comma-separated list of expressions
FieldValid(f, k) ==
    LET es == SplitOn(f, ",", 1, "")
    IN  \A i \in 1..Len(es) : ExprValid(es[i], FieldMin[k], FieldMax[k])

FieldMatches(f, v, k) ==
    LET es == SplitOn(f, ",", 1, "")
    IN  \E i \in 1..Len(es) : ExprMatches(es[i], v, FieldMin[k], FieldMax[k])

\* CronTrigger(minute=.., hour=.., day=.., month=.., day_of_week=..) accepts
CronTriggerValid(fields) == \A k \in 1..5 : FieldValid(fields[k], k)

(* The calendar fields of minute t of the run.  The process boots at 00:00  *)
(* on a Monday, the first day of month 1; months are taken as 31 days long. *)
TimeField(t, k) ==
    CASE k = 1 -> t % 60
      [] k = 2 -> (t \div 60) % 24
      [] k = 3 -> 1 + ((t \div 1440) % 31)
      [] k = 4 -> 1 + ((t \div 44640) % 12)
      [] k = 5 -> (t \div 1440) % 7

\* CronTrigger: an instant fires when every field matches
TriggerMatches(fields, t) ==
    \A k \in 1..5 : FieldMatches(fields[k], TimeField(t, k), k)

Min(S) == CHOOSE x \in S : \A y \in S : x <= y

\* crontab texts of six and seven fields, next to the five-field one
WideCrontabs == {"* * * * *", "* * * * * *", "* * * * * * *"}

\* the instants of the run at which the trigger built from a crontab fires
FireTimes ==
    [c \in {x \in Crontabs \cup WideCrontabs : Len(split(x)) = 5} |->
        {t \in 0..MaxTime : TriggerMatches(split(c), t)}]

(* trigger.get_next_fire_time of the trigger built from the five fields of  *)
(* `crontab`: the first matching instant after `after`                      *)
get_next_fire_time(crontab, after) ==
    LET later == {t \in FireTimes[crontab] : t > after}
    IN  IF later = {} THEN Beyond ELSE Min(later)

\* ------------------------------------------------------------- definitions
CronJob == [id : JobIds, crontab : Crontabs, enabled : BOOLEAN]

DefinitionLists == UNION {[1..n -> CronJob] : n \in 0..MaxDefs}

\* a crontab text that cannot be scheduled
Malformed(crontab) ==
    Len(split(crontab)) # 5 \/ ~CronTriggerValid(split(crontab))

\* the same, tabulated over the crontab texts of the definition lists
IsMalformed == [c \in Crontabs \cup WideCrontabs |-> Malformed(c)]

\* ------------------------------------------------- CronJob.validate_crontab
(* The pattern of validate_crontab under re.match: a group repeated five    *)
(* to seven times, the group being one of four alternatives (a comma list   *)
(* of digit runs; two digit runs around "/" or "-"; a digit run; a star)    *)
(* and an optional blank.  The match is anchored at the start of the text   *)
(* only.  Positions are the index of the next character to read.            *)

\* a digit run read from position p: every position after one or more digits
DigitEnds(s, p) ==
    {q \in (p + 1)..(Len(s) + 1) : \A i \in p..(q - 1) : IsDigit(CharAt(s, i))}

\* one or more digit runs, each with its comma, read from position p
RECURSIVE ListHeads(_, _)
ListHeads(s, p) ==
    LET once == {q + 1 : q \in {x \in DigitEnds(s, p) :
                                   x <= Len(s) /\ CharAt(s, x) = ","}}
    IN  once \cup UNION {ListHeads(s, h) : h \in once}

\* one of the four alternatives read from position p
TokenEnds(s, p) ==
    UNION {
        UNION {DigitEnds(s, h) : h \in ListHeads(s, p)},
        UNION {DigitEnds(s, q + 1) :
                   q \in {x \in DigitEnds(s, p) :
                            x <= Len(s) /\ CharAt(s, x) \in {"/", "-"}}},
        DigitEnds(s, p),
        IF p <= Len(s) /\ CharAt(s, p) = "*" THEN {p + 1} ELSE {}
    }

\* the group: an alternative and an optional blank
GroupEnds(s, p) ==
    LET ends == TokenEnds(s, p)
    IN  ends \cup {q + 1 : q \in {x \in ends : x <= Len(s) /\ CharAt(s, x) = " "}}

\* the positions k repetitions of the group can reach from the positions P
RECURSIVE Repeat(_, _, _)
Repeat(s, k, P) ==
    IF k = 0 THEN P
    ELSE Repeat(s, k - 1, UNION {GroupEnds(s, p) : p \in P})

\* re.match(pattern, v): five repetitions match a prefix of v
PatternMatches(v) == Repeat(v, 5, {1}) # {}

\* validate_crontab(cls, v): returns v or raises ValueError
validate_crontab(v) == IF PatternMatches(v) THEN "none" ELSE "ValueError"

\* texts handed to validate_crontab: four or five of these fields, blank-joined
ValidatorFields == {"*", "7", "1,2", "1-5", "*/5", "a"}

RECURSIVE Join(_)
Join(fs) ==
    IF Len(fs) = 0 THEN ""
    ELSE IF Len(fs) = 1 THEN fs[1]
    ELSE fs[1] \o " " \o Join(Tail(fs))

\* and texts with the fields run together or with text after the fifth field
ValidatorInputs ==
    {Join(fs) : fs \in UNION {[1..n -> ValidatorFields] : n \in 4..5}}
        \cup {"*****", "12345", "* * * * *x", "* * * * * x"}

\* validate_crontab is called on the crontab of a definition record
ValidateCrontab ==
    /\ pc = "built"
    /\ pc' = "validated"
    /\ error' = validate_crontab(cronjobs[1].crontab)
    /\ UNCHANGED <<job_store_address, pre_delete_jobs, cronjobs, backend,
                   reachable, jobstore, boot_store, pending_jobs, state,
                   instances, skipped, now, observer_started, http_started,
                   events, edits>>

\* ------------------------------------------------------------- job stores
JobStoreClass(address) ==
    IF StartsWith(address, "memory://") THEN "MemoryJobStore"
    ELSE IF StartsWith(address, "postgresql://") THEN "SQLAlchemyJobStore"
    ELSE IF StartsWith(address, "crate://") THEN "CrateDBSQLAlchemyJobStore"
    ELSE "none"

Durable(cls) == cls \in {"SQLAlchemyJobStore", "CrateDBSQLAlchemyJobStore"}

StoreIds(store) == {store[i].id : i \in 1..Len(store)}

(* A job as add_job builds it from a definition; its cron trigger is the    *)
(* one the five fields of the crontab text give.                            *)
Job(id, crontab, max_instances) ==
    [id |-> id, crontab |-> crontab, max_instances |-> max_instances]

Stored(job, next_run_time) ==
    [id |-> job.id, crontab |-> job.crontab,
     max_instances |-> job.max_instances, next_run_time |-> next_run_time]

(* What a durable store can hold when the process boots: the jobs an       *)
(* earlier run of this program seeded for the ids 1..n, with their next     *)
(* fire time one minute ahead.                                              *)
EarlierJobs(n) ==
    [k \in 1..n |-> Stored(Job(k, "* * * * *", SeedMaxInstances), 1)]

Init ==
    /\ job_store_address \in Addresses
    /\ pre_delete_jobs \in BOOLEAN
    /\ cronjobs \in DefinitionLists
    /\ pc = "boot"
    /\ error = "none"
    /\ backend = "none"
    /\ reachable \in
         (IF Durable(JobStoreClass(job_store_address)) THEN BOOLEAN ELSE {TRUE})
    /\ jobstore \in
         (IF Durable(JobStoreClass(job_store_address))
          THEN {EarlierJobs(n) : n \in 0..Cardinality(JobIds)}
          ELSE {<<>>})
    /\ boot_store = jobstore
    /\ pending_jobs = <<>>
    /\ state = "stopped"
    /\ instances = [j \in JobIds |-> 0]
    /\ skipped = {}
    /\ now = 0
    /\ observer_started = FALSE
    /\ http_started = FALSE
    /\ events = <<>>
    /\ edits = 0

\* ------------------------------------------------------ Supertask.configure
(* job_store.remove_all_jobs() inside try/except-pass: a durable store that *)
(* does not answer raises, the exception is swallowed, the jobs stay.       *)
remove_all_jobs(store, cls, up) ==
    IF Durable(cls) /\ ~up THEN store ELSE <<>>

Configure ==
    /\ pc = "boot"
    /\ LET cls == JobStoreClass(job_store_address)
       IN  IF cls = "none"
           THEN /\ pc' = "error"
                /\ error' = "RuntimeError"
                /\ UNCHANGED <<backend, jobstore>>
           ELSE /\ pc' = "configured"
                /\ backend' = cls
                /\ jobstore' = IF pre_delete_jobs
                               THEN remove_all_jobs(jobstore, cls, reachable)
                               ELSE jobstore
                /\ UNCHANGED error
    /\ UNCHANGED <<job_store_address, pre_delete_jobs, cronjobs, reachable,
                   boot_store, pending_jobs, state, instances, skipped, now,
                   observer_started, http_started, events, edits>>

\* ------------------------------------------------------ Supertask.seed_jobs
\* the five-target unpacking of crontab.split() raises ValueError
UnpackError(fields) == Len(fields) # 5

\* variant: a trigger constructor that validates nothing
TriggerErrorNever(fields) == FALSE

\* the CronTrigger constructor inside add_job raises ValueError
TriggerError(fields) == ~CronTriggerValid(fields)

(* The loop of seed_jobs from record i on: a disabled record is passed      *)
(* over, an enabled one is unpacked and handed to scheduler.add_job, which, *)
(* the scheduler not running yet, appends the job to the pending list.  The *)
(* first exception ends the loop.                                           *)
RECURSIVE SeedLoop(_, _, _)
SeedLoop(defs, i, pending) ==
    IF i > Len(defs) THEN [error |-> "none", pending |-> pending]
    ELSE IF ~defs[i].enabled THEN SeedLoop(defs, i + 1, pending)
    ELSE LET fields == split(defs[i].crontab)
         IN  IF UnpackError(fields) \/ TriggerError(fields)
             THEN [error |-> "ValueError", pending |-> pending]
             ELSE SeedLoop(defs, i + 1,
                           Append(pending,
                                  Job(defs[i].id, defs[i].crontab,
                                      SeedMaxInstances)))

SeedJobs ==
    /\ pc = "configured"
    /\ LET r == SeedLoop(cronjobs, 1, pending_jobs)
       IN  /\ pending_jobs' = r.pending
           /\ error' = r.error
           /\ pc' = IF r.error = "none" THEN "seeded" ELSE "error"
    /\ UNCHANGED <<job_store_address, pre_delete_jobs, cronjobs, backend,
                   reachable, jobstore, boot_store, state, instances, skipped,
                   now, observer_started, http_started, events, edits>>

\* ------------------------------------------------ Supertask.start_scheduler
\* variant: a store that accepts an id it already holds
ConflictsNever(store, id) == FALSE

\* store.add_job raises ConflictingIdError for an id the store holds
Conflicts(store, id) == id \in StoreIds(store)

(* scheduler.start() adds the pending jobs to the store one by one, each    *)
(* with its first fire time after the current instant; the first conflict   *)
(* raises and leaves the jobs added before it in the store.                 *)
RECURSIVE RealAddJobs(_, _, _, _)
RealAddJobs(pending, i, store, t) ==
    IF i > Len(pending) THEN [error |-> "none", store |-> store]
    ELSE IF Conflicts(store, pending[i].id)
         THEN [error |-> "ConflictingIdError", store |-> store]
         ELSE RealAddJobs(pending, i + 1,
                          Append(store,
                                 Stored(pending[i],
                                        get_next_fire_time(pending[i].crontab, t))),
                          t)

\* variant: a store whose start never touches the backend
StoreStartErrorNever(cls, up) == FALSE

\* store.start() of a durable store connects to the backend
StoreStartError(cls, up) == Durable(cls) /\ ~up

StartScheduler ==
    /\ pc = "seeded"
    /\ IF StoreStartError(backend, reachable)
       THEN /\ pc' = "error"
            /\ error' = "OperationalError"
            /\ UNCHANGED <<jobstore, pending_jobs, state>>
       ELSE LET r == RealAddJobs(pending_jobs, 1, jobstore, now)
            IN  /\ jobstore' = r.store
                /\ error' = r.error
                /\ IF r.error = "none"
                   THEN /\ pc' = "scheduler_started"
                        /\ state' = "running"
                        /\ pending_jobs' = <<>>
                   ELSE /\ pc' = "error"
                        /\ UNCHANGED <<state, pending_jobs>>
    /\ UNCHANGED <<job_store_address, pre_delete_jobs, cronjobs, backend,
                   reachable, boot_store, instances, skipped, now,
                   observer_started, http_started, events, edits>>

\* --------------------------------------- Supertask.start_filesystem_observer
\* variant: the observer is started as soon as seeding is done
StartFilesystemObserverEarly ==
    /\ pc = "seeded"
    /\ ~observer_started
    /\ observer_started' = TRUE
    /\ UNCHANGED <<job_store_address, pre_delete_jobs, cronjobs, pc, error,
                   backend, reachable, jobstore, boot_store, pending_jobs,
                   state, instances, skipped, now, http_started, events, edits>>

StartFilesystemObserver ==
    /\ pc = "scheduler_started"
    /\ pc' = "observer_started"
    /\ observer_started' = TRUE
    /\ UNCHANGED <<job_store_address, pre_delete_jobs, cronjobs, error,
                   backend, reachable, jobstore, boot_store, pending_jobs,
                   state, instances, skipped, now, http_started, events, edits>>

\* ---------------------------------------------- Supertask.start_http_service
StartHttpService ==
    /\ pc = "observer_started"
    /\ pc' = "started"
    /\ http_started' = TRUE
    /\ UNCHANGED <<job_store_address, pre_delete_jobs, cronjobs, error,
                   backend, reachable, jobstore, boot_store, pending_jobs,
                   state, instances, skipped, now, observer_started, events,
                   edits>>

\* ------------------------------------------- the scheduler's processing pass
Due(job, t) == job.next_run_time <= t

\* variant: a submit that waits while any run is in flight
SubmitBlocksWhileRunning(inst) == \E j \in JobIds : inst[j] > 0

(* executor.submit_job hands the run to the thread pool and returns; the    *)
(* pool's work queue is unbounded, so no in-flight run makes it wait.       *)
SubmitBlocks(inst) == FALSE

\* variant: a fire missed at the limit stays due and is run later
ProcessJobKeepMissed(job, count, t) ==
    [submitted |-> count < job.max_instances,
     next_run_time |-> IF count < job.max_instances
                       THEN get_next_fire_time(job.crontab, t)
                       ELSE job.next_run_time]

(* One due job of the pass: it is submitted unless the executor counts      *)
(* max_instances runs of it already (MaxInstancesReachedError, logged), and *)
(* in both cases its next fire time moves to the first one after now.       *)
ProcessJob(job, count, t) ==
    [submitted |-> count < job.max_instances,
     next_run_time |-> get_next_fire_time(job.crontab, t)]

\* the pass over the store from job i on
RECURSIVE ProcessFrom(_, _, _, _, _)
ProcessFrom(store, i, inst, skip, t) ==
    IF i > Len(store) THEN [store |-> store, inst |-> inst, skip |-> skip]
    ELSE IF ~Due(store[i], t) THEN ProcessFrom(store, i + 1, inst, skip, t)
    ELSE LET id == store[i].id
             r == ProcessJob(store[i], inst[id], t)
         IN  ProcessFrom(
                 [store EXCEPT ![i].next_run_time = r.next_run_time],
                 i + 1,
                 IF r.submitted THEN [inst EXCEPT ![id] = @ + 1] ELSE inst,
                 IF r.submitted THEN skip ELSE skip \cup {id},
                 t)

SomeDue == \E i \in 1..Len(jobstore) : Due(jobstore[i], now)

ProcessJobs ==
    /\ state = "running"
    /\ SomeDue
    /\ ~SubmitBlocks(instances)
    /\ \E r \in {ProcessFrom(jobstore, 1, instances, skipped, now)} :
           /\ jobstore' = r.store
           /\ instances' = r.inst
           /\ skipped' = r.skip
    /\ UNCHANGED <<job_store_address, pre_delete_jobs, cronjobs, pc, error,
                   backend, reachable, boot_store, pending_jobs, state, now,
                   observer_started, http_started, events, edits>>

\* variant: a completion that writes the job's entry back when it is gone
JobDoneRestoresEntry(j) ==
    /\ instances[j] > 0
    /\ instances' = [instances EXCEPT ![j] = @ - 1]
    /\ jobstore' = IF j \in StoreIds(jobstore) THEN jobstore
                   ELSE Append(jobstore,
                               Stored(Job(j, "* * * * *", SeedMaxInstances),
                                      get_next_fire_time("* * * * *", now)))
    /\ UNCHANGED <<job_store_address, pre_delete_jobs, cronjobs, pc, error,
                   backend, reachable, boot_store, pending_jobs, state,
                   skipped, now, observer_started, http_started, events, edits>>

\* a run of job j ends: the executor releases its instance
JobDone(j) ==
    /\ instances[j] > 0
    /\ instances' = [instances EXCEPT ![j] = @ - 1]
    /\ UNCHANGED <<job_store_address, pre_delete_jobs, cronjobs, pc, error,
                   backend, reachable, jobstore, boot_store, pending_jobs,
                   state, skipped, now, observer_started, http_started,
                   events, edits>>

(* A minute passes.  Startup takes less than a minute, and the running      *)
(* scheduler wakes at every fire time, so the clock moves only once startup *)
(* has ended and the due jobs have been processed.                          *)
Tick ==
    /\ pc = "started"
    /\ now < MaxTime
    /\ ~SomeDue
    /\ now' = now + 1
    /\ UNCHANGED <<job_store_address, pre_delete_jobs, cronjobs, pc, error,
                   backend, reachable, jobstore, boot_store, pending_jobs,
                   state, instances, skipped, observer_started, http_started,
                   events, edits>>

\* ------------------------------------------------------------- environment
\* the durable backend goes down or comes back while the process starts
BackendChange ==
    /\ Durable(JobStoreClass(job_store_address))
    /\ pc \in {"boot", "configured", "seeded"}
    /\ reachable' = ~reachable
    /\ UNCHANGED <<job_store_address, pre_delete_jobs, cronjobs, pc, error,
                   backend, jobstore, boot_store, pending_jobs, state,
                   instances, skipped, now, observer_started, http_started,
                   events, edits>>

(* The definition list is edited after seed_jobs has read it (an earlier    *)
(* edit is a different initial list).  The observer queues a change event   *)
(* for the record's id only if it is running.                               *)
Edited(defs, id) ==
    /\ edits < MaxEdits
    /\ pc \in {"seeded", "scheduler_started", "observer_started", "started"}
    /\ cronjobs' = defs
    /\ edits' = edits + 1
    /\ events' = IF observer_started THEN Append(events, id) ELSE events
    /\ UNCHANGED <<job_store_address, pre_delete_jobs, pc, error, backend,
                   reachable, jobstore, boot_store, pending_jobs, state,
                   instances, skipped, now, observer_started, http_started>>

ToggleEnabled ==
    \E i \in 1..Len(cronjobs) :
        Edited([cronjobs EXCEPT ![i].enabled = ~@], cronjobs[i].id)

AppendDefinition ==
    \E d \in CronJob :
        /\ Len(cronjobs) < MaxDefs
        /\ Edited(Append(cronjobs, d), d.id)

\* record i is deleted from the definition list
RemoveDefinition ==
    \E i \in 1..Len(cronjobs) :
        Edited(SubSeq(cronjobs, 1, i - 1) \o SubSeq(cronjobs, i + 1, Len(cronjobs)),
               cronjobs[i].id)

\* ------------------------------------------------- FileChangeHandler (watcher)
RemoveJob(store, id) == SelectSeq(store, LAMBDA j : j.id # id)

(* Reconciliation of one id against the definition list, as section 4.3 of  *)
(* the specification states it: no enabled record of the id removes the     *)
(* entry; otherwise the first enabled record decides: a malformed schedule  *)
(* leaves the entry as it is, an unchanged schedule changes nothing, a      *)
(* changed one is recomputed and a new one is added.                        *)
Reconcile(store, defs, id, t) ==
    LET at == {i \in 1..Len(defs) : defs[i].id = id /\ defs[i].enabled}
        d == defs[Min(at)]
        job == Stored(Job(id, d.crontab, DefaultMaxInstances),
                      get_next_fire_time(d.crontab, t))
    IN  IF at = {} THEN RemoveJob(store, id)
        ELSE IF IsMalformed[d.crontab] THEN store
        ELSE IF id \notin StoreIds(store) THEN Append(store, job)
        ELSE [i \in 1..Len(store) |->
                 IF store[i].id = id /\ store[i].crontab # d.crontab
                 THEN [job EXCEPT !.max_instances = store[i].max_instances]
                 ELSE store[i]]

HandleEvent ==
    /\ state = "running"
    /\ events # <<>>
    /\ jobstore' = Reconcile(jobstore, cronjobs, Head(events), now)
    /\ events' = Tail(events)
    /\ UNCHANGED <<job_store_address, pre_delete_jobs, cronjobs, pc, error,
                   backend, reachable, boot_store, pending_jobs, state,
                   instances, skipped, now, observer_started, http_started,
                   edits>>

\* ---------------------------------------------------------- Supertask.wait
(* KeyboardInterrupt or SystemExit reaches the sleep loop of wait(), whose  *)
(* handler calls scheduler.shutdown(): the scheduler's state becomes        *)
(* stopped before the executors are shut down.                              *)
Interrupt ==
    /\ pc = "started"
    /\ pc' = "shutdown"
    /\ state' = "stopped"
    /\ UNCHANGED <<job_store_address, pre_delete_jobs, cronjobs, error,
                   backend, reachable, jobstore, boot_store, pending_jobs,
                   instances, skipped, now, observer_started, http_started,
                   events, edits>>

(* scheduler.shutdown() is called with its default wait=True: the thread    *)
(* pool's shutdown joins its workers, so the call blocks for as long as any *)
(* run is in flight.  There is no timeout.                                  *)
ShutdownWaits(inst) == \E j \in JobIds : inst[j] > 0

(* shutdown() returns and with it wait().  Nothing stops the Observer (a    *)
(* local of start_filesystem_observer) or the uvicorn thread (a non-daemon  *)
(* thread nobody keeps a handle of): both keep running.                     *)
ShutdownReturn ==
    /\ pc = "shutdown"
    /\ ~ShutdownWaits(instances)
    /\ pc' = "waited"
    /\ UNCHANGED <<job_store_address, pre_delete_jobs, cronjobs, error,
                   backend, reachable, jobstore, boot_store, pending_jobs,
                   state, instances, skipped, now, observer_started,
                   http_started, events, edits>>

\* ------------------------------------------------- the trigger on the calendar
(* The same trigger on the scale of days.  An instant is a whole minute     *)
(* counted from 00:00 of day 0 (a Monday, the first of month 1), read as    *)
(* that minute's mark exactly.                                              *)
EvalCrontabs ==
    {"*/5 * * * *", "30 12 * * *", "0 0 3 * *", "0 0 * * 3", "0 0 2 * 2",
     "0 0 1-2 * 1"}

\* start instants: midnight, 10:00, 10:02, 10:05, 12:30, of days 0 and 1
EvalInstants == {d * 1440 + m : d \in 0..1, m \in {0, 600, 602, 605, 750}}

EvalBeyond == (MaxDays + 1) * 1440   \* a fire time after the calendar's end

(* The minutes of a day at which the minute and hour fields match, and the  *)
(* days on which the day, month and day_of_week fields all match.           *)
Calendar ==
    [c \in EvalCrontabs |->
        LET f == split(c)
        IN  [minutes |->
                {h * 60 + m : h \in {x \in 0..23 : FieldMatches(f[2], x, 2)},
                              m \in {x \in 0..59 : FieldMatches(f[1], x, 1)}},
             days |->
                {d \in 0..MaxDays :
                    \A k \in 3..5 :
                        FieldMatches(f[k], TimeField(d * 1440, k), k)}]]

\* the first instant at or after `start` at which every field matches
FireTimeFrom(crontab, start) ==
    LET cal == Calendar[crontab]
        d0 == start \div 1440
        today == IF d0 \in cal.days
                 THEN {m \in cal.minutes : m >= start % 1440} ELSE {}
        later == {d \in cal.days : d > d0}
    IN  IF today # {} THEN d0 * 1440 + Min(today)
        ELSE IF later # {} /\ cal.minutes # {}
             THEN Min(later) * 1440 + Min(cal.minutes)
             ELSE EvalBeyond

(* trigger.get_next_fire_time(None, now), the first evaluation of an added  *)
(* job: the search starts at now itself, so now is the answer when it is a  *)
(* fire time.                                                               *)
FirstFireTime(crontab, t) == FireTimeFrom(crontab, t)

\* variant: a re-evaluation that starts its search at the previous fire time
NextFireTimeInclusive(crontab, previous) == FireTimeFrom(crontab, previous)

(* trigger.get_next_fire_time(previous_fire_time, now) at a fire: the       *)
(* search starts just after the previous fire time.                         *)
NextFireTime(crontab, previous) == FireTimeFrom(crontab, previous + 1)

(* scheduler.start() at instant now with the one seeded job pending: the    *)
(* job enters the store with its first fire time.                           *)
AddSeededJob ==
    /\ pc = "seeded"
    /\ Len(pending_jobs) = 1
    /\ pending_jobs[1].crontab \in EvalCrontabs
    /\ jobstore' = <<Stored(pending_jobs[1],
                            FirstFireTime(pending_jobs[1].crontab, now))>>
    /\ pending_jobs' = <<>>
    /\ state' = "running"
    /\ pc' = "scheduler_started"
    /\ UNCHANGED <<job_store_address, pre_delete_jobs, cronjobs, error,
                   backend, reachable, boot_store, instances, skipped, now,
                   observer_started, http_started, events, edits>>

(* The clock reaches the job's fire time, the job is run and its run ends   *)
(* at once; the processing pass moves the fire time on.                     *)
FireAndReschedule ==
    /\ state = "running"
    /\ Len(jobstore) = 1
    /\ jobstore[1].crontab \in EvalCrontabs
    /\ jobstore[1].next_run_time < EvalBeyond
    /\ now' = jobstore[1].next_run_time
    /\ jobstore' =
         [jobstore EXCEPT ![1].next_run_time =
             NextFireTime(jobstore[1].crontab, jobstore[1].next_run_time)]
    /\ UNCHANGED <<job_store_address, pre_delete_jobs, cronjobs, pc, error,
                   backend, reachable, boot_store, pending_jobs, state,
                   instances, skipped, observer_started, http_started,
                   events, edits>>

\* ----------------------------------------------------------- specification
(* The program on a definition list nobody edits while it runs: the steps   *)
(* of run_supertask, the scheduler's passes, the runs' completions, the     *)
(* clock and the backend.                                                   *)
Next ==
    \/ Configure
    \/ SeedJobs
    \/ StartScheduler
    \/ StartFilesystemObserver
    \/ StartHttpService
    \/ ProcessJobs
    \/ \E j \in JobIds : JobDone(j)
    \/ Tick
    \/ BackendChange

Spec == Init /\ [][Next]_vars

\* the same with edits of the definition list and the watcher's handling
NextWatched ==
    \/ Next
    \/ ToggleEnabled
    \/ AppendDefinition
    \/ RemoveDefinition
    \/ HandleEvent

WatchedSpec == Init /\ [][NextWatched]_vars

(* The watched program started on a definition list whose records all      *)
(* carry the every-minute crontab, with records deleted while it runs.      *)
RemovalInit ==
    /\ Init
    /\ \A i \in 1..Len(cronjobs) : cronjobs[i].crontab = "* * * * *"

\* the only edits are deletions of records
NextRemoval ==
    \/ Next
    \/ RemoveDefinition
    \/ HandleEvent

RemovalSpec == RemovalInit /\ [][NextRemoval]_vars

(* One enabled definition seeded into a memory store at some instant of    *)
(* the calendar, then the scheduler started and the job fired time after    *)
(* time.                                                                    *)
EvalInit ==
    /\ job_store_address = "memory://"
    /\ pre_delete_jobs = FALSE
    /\ \E c \in EvalCrontabs :
          /\ cronjobs = <<[id |-> 1, crontab |-> c, enabled |-> TRUE]>>
          /\ pending_jobs = <<Job(1, c, SeedMaxInstances)>>
    /\ pc = "seeded"
    /\ error = "none"
    /\ backend = "MemoryJobStore"
    /\ reachable = TRUE
    /\ jobstore = <<>>
    /\ boot_store = <<>>
    /\ state = "stopped"
    /\ instances = [j \in JobIds |-> 0]
    /\ skipped = {}
    /\ now \in EvalInstants
    /\ observer_started = FALSE
    /\ http_started = FALSE
    /\ events = <<>>
    /\ edits = 0

NextEval ==
    \/ AddSeededJob
    \/ FireAndReschedule

EvalSpec == EvalInit /\ [][NextEval]_vars

\* the program started on a definition list of five- to seven-field crontabs
WideInit ==
    /\ job_store_address \in Addresses
    /\ pre_delete_jobs \in BOOLEAN
    /\ cronjobs \in
         UNION {[1..n -> [id : JobIds, crontab : WideCrontabs, enabled : BOOLEAN]] :
                    n \in 0..MaxDefs}
    /\ pc = "boot"
    /\ error = "none"
    /\ backend = "none"
    /\ reachable \in
         (IF Durable(JobStoreClass(job_store_address)) THEN BOOLEAN ELSE {TRUE})
    /\ jobstore \in
         (IF Durable(JobStoreClass(job_store_address))
          THEN {EarlierJobs(n) : n \in 0..Cardinality(JobIds)}
          ELSE {<<>>})
    /\ boot_store = jobstore
    /\ pending_jobs = <<>>
    /\ state = "stopped"
    /\ instances = [j \in JobIds |-> 0]
    /\ skipped = {}
    /\ now = 0
    /\ observer_started = FALSE
    /\ http_started = FALSE
    /\ events = <<>>
    /\ edits = 0

WideSpec == WideInit /\ [][Next]_vars

\* a definition record has been built from one of the validator's inputs
ValidateInit ==
    /\ job_store_address = "memory://"
    /\ pre_delete_jobs = FALSE
    /\ \E v \in ValidatorInputs :
          cronjobs = <<[id |-> 1, crontab |-> v, enabled |-> TRUE]>>
    /\ pc = "built"
    /\ error = "none"
    /\ backend = "none"
    /\ reachable = TRUE
    /\ jobstore = <<>>
    /\ boot_store = <<>>
    /\ pending_jobs = <<>>
    /\ state = "stopped"
    /\ instances = [j \in JobIds |-> 0]
    /\ skipped = {}
    /\ now = 0
    /\ observer_started = FALSE
    /\ http_started = FALSE
    /\ events = <<>>
    /\ edits = 0

ValidateSpec == ValidateInit /\ [][ValidateCrontab]_vars

(* The program as __main__ runs it: run_supertask, then wait() until an     *)
(* interrupt.  A shutdown that can return does return; a run in flight may  *)
(* never end, so the completions carry no fairness.                         *)
NextShutdown ==
    \/ Next
    \/ Interrupt
    \/ ShutdownReturn

ShutdownSpec == Init /\ [][NextShutdown]_vars /\ WF_vars(ShutdownReturn)

TypeOK ==
    /\ pc \in {"boot", "configured", "seeded", "scheduler_started",
                "observer_started", "started", "shutdown", "waited", "error",
                "built", "validated"}
    /\ state \in {"stopped", "running"}
    /\ now \in 0..EvalBeyond
    /\ \A j \in JobIds : instances[j] \in 0..SeedMaxInstances

\* ------------------------------------------------------------------ claims
\* seed_jobs has run (to its end or to an exception)
SeedingDone ==
    \/ pc \in {"seeded", "scheduler_started", "observer_started", "started"}
    \/ pc = "error" /\ error # "RuntimeError"

PendingIds == {pending_jobs[i].id : i \in 1..Len(pending_jobs)}

\* ids with a record in the definition list, none of them enabled
DisabledIds ==
    {id \in JobIds :
        /\ \E i \in 1..Len(cronjobs) : cronjobs[i].id = id
        /\ \A i \in 1..Len(cronjobs) : cronjobs[i].id = id => ~cronjobs[i].enabled}

(* C1: no job ever has more instances in flight than its configured limit, *)
(* which is the default 1 since no definition carries a limit: no job has   *)
(* two instances in flight at once.                                         *)
C1_AtMostDefaultInFlight ==
    \A j \in JobIds : instances[j] <= DefaultMaxInstances

(* The process restarts on a durable, reachable store that holds exactly    *)
(* the jobs of the definition list it is started with: every record is      *)
(* enabled and well formed, the ids are distinct, and the store holds one   *)
(* job per record, with the record's id and crontab.                        *)
IdenticalRestart ==
    /\ ~pre_delete_jobs
    /\ edits = 0
    /\ reachable
    /\ Durable(JobStoreClass(job_store_address))
    /\ cronjobs # <<>>
    /\ \A i \in 1..Len(cronjobs) :
          /\ cronjobs[i].enabled
          /\ ~IsMalformed[cronjobs[i].crontab]
          /\ \A k \in 1..Len(cronjobs) : cronjobs[k].id = cronjobs[i].id => k = i
          /\ \E k \in 1..Len(boot_store) :
                /\ boot_store[k].id = cronjobs[i].id
                /\ boot_store[k].crontab = cronjobs[i].crontab
    /\ Len(boot_store) = Len(cronjobs)

(* C2: a restart on a durable store that already holds the jobs of an       *)
(* identical definition list completes startup without error and leaves     *)
(* the store as it was: one entry per id, every next fire time unchanged.   *)
C2_RestartIdempotent ==
    (IdenticalRestart /\ now = 0
       /\ pc \in {"scheduler_started", "observer_started", "started", "error"})
    => (pc # "error" /\ jobstore = boot_store)

C4_EnabledScheduled ==
    (pc = "started" /\ events = <<>>)
    => \A i \in 1..Len(cronjobs) :
           (cronjobs[i].enabled /\ ~IsMalformed[cronjobs[i].crontab])
           => cronjobs[i].id \in StoreIds(jobstore)

(* C5: once startup has ended and the watcher has no event left to deliver, *)
(* no id whose definition is disabled has a scheduled entry.                *)
C5_DisabledNeverScheduled ==
    (pc = "started" /\ events = <<>>)
    => \A id \in DisabledIds : id \notin StoreIds(jobstore)

(* C6: with the pre-delete flag the store holds no job when seeding begins; *)
(* without it, startup removes no job from the store.                       *)
C6_ClearedIffFlag ==
    /\ (pre_delete_jobs /\ pc = "configured") => jobstore = <<>>
    /\ (~pre_delete_jobs /\ edits = 0 /\ now = 0)
         => StoreIds(boot_store) \subseteq StoreIds(jobstore)

(* C7: in-flight runs never hold the scheduling loop back: whenever the     *)
(* scheduler runs and some job is due, the processing pass can be taken at  *)
(* once and it dispatches every due job that is below its limit, whatever   *)
(* the other jobs have in flight.                                           *)
C7_DispatchAndContinue ==
    []((state = "running" /\ SomeDue)
       => ENABLED (/\ ProcessJobs
                   /\ \A i \in 1..Len(jobstore) :
                         (/\ Due(jobstore[i], now)
                          /\ instances[jobstore[i].id] < jobstore[i].max_instances)
                         => instances'[jobstore[i].id]
                              = instances[jobstore[i].id] + 1))

\* one job has all its instances in flight while another job is due
C7_Witness ==
    /\ state = "running"
    /\ \E a \in JobIds, i \in 1..Len(jobstore) :
          /\ jobstore[i].id # a
          /\ instances[a] = SeedMaxInstances
          /\ Due(jobstore[i], now)
          /\ instances[jobstore[i].id] < jobstore[i].max_instances

(* C8: the store never holds two scheduled entries with the same job id.    *)
C8_OneEntryPerId ==
    \A i, k \in 1..Len(jobstore) : jobstore[i].id = jobstore[k].id => i = k

(* the definition list has two enabled records of an id the store already   *)
(* held at boot, and the scheduler start has met the conflict               *)
C8_Witness ==
    /\ error = "ConflictingIdError"
    /\ edits = 0
    /\ \E i, k \in 1..Len(cronjobs) :
          /\ i < k
          /\ cronjobs[i].id = cronjobs[k].id
          /\ cronjobs[i].enabled /\ cronjobs[k].enabled
          /\ cronjobs[i].id \in StoreIds(boot_store)
          /\ cronjobs[i].id \in StoreIds(jobstore)

(* C9: a job that is due while it is at its limit is skipped for good: the  *)
(* pass starts no instance of it, records the skip and moves its next fire  *)
(* time past now, so nothing is left to run later; and a completion only    *)
(* releases an instance, it starts no run and changes no fire time.         *)
C9_MissedFireSkipped ==
    [][/\ ProcessJobs =>
            \A i \in 1..Len(jobstore) :
                (/\ Due(jobstore[i], now)
                 /\ instances[jobstore[i].id] >= jobstore[i].max_instances)
                => /\ instances'[jobstore[i].id] = instances[jobstore[i].id]
                   /\ jobstore[i].id \in skipped'
                   /\ jobstore'[i].next_run_time > now
       /\ \A j \in JobIds :
            JobDone(j) => (instances'[j] = instances[j] - 1 /\ jobstore' = jobstore)
      ]_vars

\* a fire of a job was skipped at the limit and an instance has ended since
C9_Witness ==
    \E i \in 1..Len(jobstore) :
        /\ jobstore[i].id \in skipped
        /\ jobstore[i].max_instances = SeedMaxInstances
        /\ instances[jobstore[i].id] = SeedMaxInstances - 1
        /\ ~Due(jobstore[i], now)

(* C10: an address of no known scheme, or a durable backend that does not   *)
(* answer when the scheduler starts its store, ends startup in the error    *)
(* state; there the scheduler is stopped and neither the watcher nor the    *)
(* HTTP service runs; a known scheme selects its own backend.               *)
C10_StartupFailuresFatal ==
    /\ (pc # "boot" /\ job_store_address = "sqlite:///jobs.db")
         => (pc = "error" /\ error = "RuntimeError")
    /\ (pc \notin {"boot", "configured", "seeded"}
          /\ job_store_address \in {"postgresql://postgres@localhost",
                                     "crate://localhost"}
          /\ ~reachable)
         => pc = "error"
    /\ pc = "error" => (state = "stopped" /\ ~observer_started /\ ~http_started)
    /\ state = "running" => pc # "error"
    /\ pc \notin {"boot", "error"} =>
         /\ job_store_address = "memory://" => backend = "MemoryJobStore"
         /\ job_store_address = "postgresql://postgres@localhost"
              => backend = "SQLAlchemyJobStore"
         /\ job_store_address = "crate://localhost"
              => backend = "CrateDBSQLAlchemyJobStore"

(* the backend did not answer, with the pre-delete flag set and jobs in the *)
(* store, and the scheduler start failed on it                              *)
C10_Witness ==
    /\ pc = "error"
    /\ error = "OperationalError"
    /\ pre_delete_jobs
    /\ jobstore # <<>>

(* C11: after an interrupt, shutdown waits for the runs in flight for a     *)
(* bounded time only: it always completes, and then the services the        *)
(* process started (the watcher, the HTTP service) have ended, even if a    *)
(* run in flight never finishes.                                            *)
C11_ShutdownCompletes ==
    (pc = "shutdown") ~> (pc = "waited" /\ ~observer_started /\ ~http_started)

\* ids with no record in the definition list
AbsentIds(defs) == {id \in JobIds : \A i \in 1..Len(defs) : defs[i].id # id}

RestrictsBothDays(crontab) ==
    split(crontab)[3] # "*" /\ split(crontab)[5] # "*"

(* The instants at which cron's rule fires a crontab: minute, hour and      *)
(* month match and the day-of-month or the day-of-week field matches.       *)
CronOrTimes ==
    [c \in {x \in EvalCrontabs : RestrictsBothDays(x)} |->
        {d * 1440 + m :
            d \in {x \in 0..MaxDays :
                     /\ FieldMatches(split(c)[4], TimeField(x * 1440, 4), 4)
                     /\ \/ FieldMatches(split(c)[3], TimeField(x * 1440, 3), 3)
                        \/ FieldMatches(split(c)[5], TimeField(x * 1440, 5), 5)},
            m \in Calendar[c].minutes}]

(* C13: a job whose crontab restricts both day fields fires at every        *)
(* instant cron's either-day rule names: its next fire time is never later  *)
(* than the first such instant after now.                                   *)
C13_EitherDayFires ==
    (state = "running" /\ Len(jobstore) = 1
       /\ jobstore[1].crontab \in DOMAIN CronOrTimes)
    => \A t \in CronOrTimes[jobstore[1].crontab] :
           t > now => jobstore[1].next_run_time <= t

(* A field as the crontab grammar has it: "*", an integer, a comma list of  *)
(* integers, a range a-b, or a step of a number or of "*".                  *)
GrammarField(f) ==
    \/ f = "*"
    \/ IsNumber(f)
    \/ LET es == SplitOn(f, ",", 1, "")
       IN  Len(es) >= 2 /\ \A i \in 1..Len(es) : IsNumber(es[i])
    \/ LET r == RangeSplit(f)
       IN  Len(r) = 2 /\ IsNumber(r[1]) /\ IsNumber(r[2])
    \/ LET st == StepSplit(f)
       IN  Len(st) = 2 /\ (st[1] = "*" \/ IsNumber(st[1])) /\ IsNumber(st[2])

(* C14: validate_crontab returns for every text of five grammar fields and  *)
(* raises for every text with fewer than five fields or with a field that   *)
(* is not of the grammar.                                                   *)
C14_ValidatorMatchesGrammar ==
    pc = "validated" =>
        LET fields == split(cronjobs[1].crontab)
            wellFormed == \A i \in 1..Len(fields) : GrammarField(fields[i])
        IN  /\ (Len(fields) = 5 /\ wellFormed) => error = "none"
            /\ (Len(fields) < 5 \/ ~wellFormed) => error = "ValueError"

C16_OthersStillScheduled ==
    (/\ SeedingDone
     /\ edits = 0
     /\ \E i \in 1..Len(cronjobs) :
           cronjobs[i].enabled /\ IsMalformed[cronjobs[i].crontab])
    => /\ error # "ValueError"
       /\ \A k \in 1..Len(cronjobs) :
             (cronjobs[k].enabled /\ ~IsMalformed[cronjobs[k].crontab])
             => cronjobs[k].id \in StoreIds(jobstore) \cup PendingIds

(* a crontab of five to seven grammar fields that the validation pattern    *)
(* accepts                                                                  *)
AcceptedCrontab(crontab) ==
    /\ Len(split(crontab)) \in 5..7
    /\ \A i \in 1..Len(split(crontab)) : GrammarField(split(crontab)[i])
    /\ PatternMatches(crontab)

(* C17: once seeding has run, every enabled definition whose crontab is an  *)
(* accepted five-, six- or seven-field expression has its job, pending or   *)
(* in the store, and seeding has raised no error.                           *)
C17_WideCrontabsScheduled ==
    (SeedingDone /\ edits = 0)
    => \A i \in 1..Len(cronjobs) :
           (cronjobs[i].enabled /\ AcceptedCrontab(cronjobs[i].crontab))
           => /\ error # "ValueError"
              /\ cronjobs[i].id \in StoreIds(jobstore) \cup PendingIds

\* the steps of run_supertask in their order; any of them may fail instead
StartupOrder ==
    {<<"boot", "configured">>, <<"configured", "seeded">>,
     <<"seeded", "scheduler_started">>,
     <<"scheduler_started", "observer_started">>,
     <<"observer_started", "started">>,
     <<"boot", "error">>, <<"configured", "error">>, <<"seeded", "error">>}

\* some job has been fired or skipped at the limit
SomeFired == skipped # {} \/ \E j \in JobIds : instances[j] > 0

(* C18: startup takes its steps in one order: configuration, seeding of     *)
(* every enabled definition, scheduler start, watcher start, HTTP service   *)
(* start.  So the scheduler runs only once seeding has finished and all     *)
(* its jobs have left the pending list, a job fires only while the          *)
(* scheduler runs, the watcher runs only beside a started scheduler and the *)
(* HTTP service only beside the watcher.                                    *)
C18_StartupInOrder ==
    /\ [][pc' # pc => <<pc, pc'>> \in StartupOrder]_vars
    /\ [](/\ pc = "boot" => backend = "none"
          /\ pc \in {"boot", "configured"} => pending_jobs = <<>>
          /\ pc = "seeded" =>
                \A i \in 1..Len(cronjobs) :
                    cronjobs[i].enabled => cronjobs[i].id \in PendingIds
          /\ state = "running" <=>
                pc \in {"scheduler_started", "observer_started", "started"}
          /\ state = "running" => pending_jobs = <<>>
          /\ SomeFired => state = "running"
          /\ observer_started <=> pc \in {"observer_started", "started"}
          /\ http_started <=> pc = "started")

\* startup has ended and a job seeded by it has been fired
C18_Witness ==
    /\ pc = "started"
    /\ observer_started /\ http_started
    /\ \E i \in 1..Len(cronjobs) :
          cronjobs[i].enabled /\ instances[cronjobs[i].id] > 0

====
